---- MODULE Spec2Model ----
(***************************************************************************)
(* Model of the two sqlline check scripts, bin/query-safety-check.py and   *)
(* bin/sqlline-service-check.py: argument validation in main(), Kerberos   *)
(* ticket handling, QuerySafetyCheck/Load.execute_sqlline (connection      *)
(* string, script file, child process, output scraping) and the reporting  *)
(* of the gathered metric.                                                 *)
(*                                                                         *)
(* One behaviour is one run of one script.  bin/sqlline-service-check.py   *)
(* carries an unresolved merge conflict; the model follows the incoming    *)
(* side (33d9448, lines 168-323 and 442-531), the only side whose main()   *)
(* agrees with the shared argument parser (--auth-mode, --max).            *)
(*                                                                         *)
(* Text is modelled as sequences of one-character strings.  Elapsed times  *)
(* are kept in hundredths of a second, so float() is a decimal parser and  *)
(* float addition is integer addition.  communicate() returns str, as in   *)
(* the Python 2 the scripts were written for.                              *)
(***************************************************************************)
EXTENDS Integers, Sequences, FiniteSets, TLC

\* Most lines the SQL client may print over both streams in one run.
MaxLines == 2

(***************************************************************************)
(* Python str operations used by execute_sqlline                           *)
(***************************************************************************)

\* sub in s  /  re.search('.*' + sub + '.*', s) on a line without newline
Contains(s, sub) ==
    \E i \in 1..(Len(s) - Len(sub) + 1) : SubSeq(s, i, i + Len(sub) - 1) = sub

\* start of the last occurrence of lit in s, 0 when there is none
LastIndexOf(s, lit) ==
    LET hits == {i \in 1..(Len(s) - Len(lit) + 1) : SubSeq(s, i, i + Len(lit) - 1) = lit}
    IN  IF hits = {} THEN 0 ELSE CHOOSE i \in hits : \A j \in hits : j <= i

\* re.sub('.*' + lit, '', s): the greedy .* runs to the last occurrence of
\* lit, the match is removed, and s is returned unchanged without a match.
re_sub(lit, s) ==
    LET i == LastIndexOf(s, lit)
    IN  IF i = 0 THEN s ELSE SubSeq(s, i + Len(lit), Len(s))

\* s.strip(chars): drop leading and trailing characters that occur in chars
strip(s, chars) ==
    LET cs   == {chars[k] : k \in 1..Len(chars)}
        keep == {i \in 1..Len(s) : s[i] \notin cs}
    IN  IF keep = {} THEN <<>>
        ELSE SubSeq(s, CHOOSE i \in keep : \A j \in keep : i <= j,
                       CHOOSE i \in keep : \A j \in keep : j <= i)

Digits == <<"0","1","2","3","4","5","6","7","8","9">>

IsDigit(c) == \E d \in 1..10 : Digits[d] = c

DigitVal(c) == (CHOOSE d \in 1..10 : Digits[d] = c) - 1

RECURSIVE ToInt(_)
ToInt(ds) == IF ds = <<>> THEN 0
             ELSE 10 * ToInt(SubSeq(ds, 1, Len(ds) - 1)) + DigitVal(ds[Len(ds)])

AllDigits(ds) == \A i \in 1..Len(ds) : IsDigit(ds[i])

\* float(s) for plain decimal literals: [sign] digits [. digits] | [sign] . digits
\* The value is returned in hundredths; ok = FALSE stands for ValueError.
float(s) ==
    LET neg  == s # <<>> /\ s[1] = "-"
        body == IF s # <<>> /\ s[1] \in {"-", "+"} THEN Tail(s) ELSE s
        dot  == LastIndexOf(body, <<".">>)
        ip   == IF dot = 0 THEN body ELSE SubSeq(body, 1, dot - 1)
        fp   == IF dot = 0 THEN <<>> ELSE SubSeq(body, dot + 1, Len(body))
        fp2  == SubSeq(fp \o <<"0","0">>, 1, 2)
        good == /\ Len(ip) + Len(fp) > 0
                /\ AllDigits(ip)
                /\ AllDigits(fp)
        mag  == 100 * ToInt(ip) + ToInt(fp2)
    IN  IF good THEN [ok |-> TRUE, v |-> IF neg THEN 0 - mag ELSE mag]
        ELSE [ok |-> FALSE, v |-> 0]

(***************************************************************************)
(* Literals of execute_sqlline                                             *)
(***************************************************************************)

NoRowsAffected == <<"N","o"," ","r","o","w","s"," ","a","f","f","e","c","t","e","d">>

RowsSelected == <<"r","o","w","s"," ","s","e","l","e","c","t","e","d">>

NoRowsAffectedParen == NoRowsAffected \o <<" ","(">>

RowsSelectedParen == RowsSelected \o <<" ","(">>

StripChars == <<")"," ","s","e","c","o","n","d","s">>

AuthenticationException == <<"j","a","v","a","x",".","n","a","m","i","n","g",".","A","u","t","h","e","n","t","i","c","a","t","i","o","n","E","x","c","e","p","t","i","o","n">>

GeneralException == <<"c","o","m",".","s","i","m","b","a",".","h","i","v","e","s","e","r","v","e","r","2",".","s","u","p","p","o","r","t",".","e","x","c","e","p","t","i","o","n","s",".","G","e","n","e","r","a","l","E","x","c","e","p","t","i","o","n">>

(***************************************************************************)
(* Lines the SQL client can print.  kind and secs describe the line as the *)
(* client meant it (secs in hundredths of a second); text is what the      *)
(* scripts read.                                                           *)
(*   timing : a statement summary carrying an elapsed time                 *)
(*   noise  : anything else without a fatal marker                         *)
(*   fatal  : a line carrying one of the two driver markers                *)
(***************************************************************************)
LineTable == <<
  \* 3 rows selected (5.0 seconds)
  [kind |-> "timing", secs |-> 500,
   text |-> <<"3"," ","r","o","w","s"," ","s","e","l","e","c","t","e","d"," ","(","5",".","0"," ","s","e","c","o","n","d","s",")">>],
  \* No rows affected (15.0 seconds)
  [kind |-> "timing", secs |-> 1500,
   text |-> <<"N","o"," ","r","o","w","s"," ","a","f","f","e","c","t","e","d"," ","(","1","5",".","0"," ","s","e","c","o","n","d","s",")">>],
  \* 42 rows selected (25.0 seconds)
  [kind |-> "timing", secs |-> 2500,
   text |-> <<"4","2"," ","r","o","w","s"," ","s","e","l","e","c","t","e","d"," ","(","2","5",".","0"," ","s","e","c","o","n","d","s",")">>],
  \* No rows affected (0.0 seconds)
  [kind |-> "timing", secs |-> 0,
   text |-> <<"N","o"," ","r","o","w","s"," ","a","f","f","e","c","t","e","d"," ","(","0",".","0"," ","s","e","c","o","n","d","s",")">>],
  \* 1 row selected (0.25 seconds)   -- singular "row": not a timing line
  [kind |-> "noise", secs |-> 0,
   text |-> <<"1"," ","r","o","w"," ","s","e","l","e","c","t","e","d"," ","(","0",".","2","5"," ","s","e","c","o","n","d","s",")">>],
  \* 5 rows selected                 -- the phrase without an elapsed time
  [kind |-> "noise", secs |-> 0,
   text |-> <<"5"," ","r","o","w","s"," ","s","e","l","e","c","t","e","d">>],
  \* Error: javax.naming.AuthenticationException: [LDAP: error code 49]
  [kind |-> "fatal", secs |-> 0,
   text |-> <<"E","r","r","o","r",":"," ","j","a","v","a","x",".","n","a","m","i","n","g",".","A","u","t","h","e","n","t","i","c","a","t","i","o","n","E","x","c","e","p","t","i","o","n",":"," ","[","L","D","A","P",":"," ","e","r","r","o","r"," ","c","o","d","e"," ","4","9","]">>],
  \* com.simba.hiveserver2.support.exceptions.GeneralException: FAILED
  [kind |-> "fatal", secs |-> 0,
   text |-> <<"c","o","m",".","s","i","m","b","a",".","h","i","v","e","s","e","r","v","e","r","2",".","s","u","p","p","o","r","t",".","e","x","c","e","p","t","i","o","n","s",".","G","e","n","e","r","a","l","E","x","c","e","p","t","i","o","n",":"," ","F","A","I","L","E","D">>]
>>

LineIds == 1..Len(LineTable)

(***************************************************************************)
(* The scan of one line (the body of both for-loops of execute_sqlline)    *)
(***************************************************************************)

has_fatal_marker_auth_only(line) == Contains(line, AuthenticationException)

\* "javax.naming.AuthenticationException" in line, or the GeneralException one
has_fatal_marker(line) ==
    Contains(line, AuthenticationException) \/ Contains(line, GeneralException)

\* norows_match / rowselect_match and the value added to perfstat:
\*   add |-> "none"        nothing matched
\*   add |-> "value"       float() gave v
\*   add |-> "ValueError"  float() raised
scan_line(line) ==
    LET norows_match    == Contains(line, NoRowsAffected)
        rowselect_match == Contains(line, RowsSelected)
        f == IF norows_match
             THEN float(strip(re_sub(NoRowsAffectedParen, line), StripChars))
             ELSE float(strip(re_sub(RowsSelectedParen, line), StripChars))
    IN  IF norows_match \/ rowselect_match
        THEN IF f.ok THEN [add |-> "value", v |-> f.v]
                     ELSE [add |-> "ValueError", v |-> 0]
        ELSE [add |-> "none", v |-> 0]

\* the scan of every line of the table, computed once
Scanned == [i \in LineIds |-> scan_line(LineTable[i].text)]

Marked == [i \in LineIds |-> has_fatal_marker(LineTable[i].text)]

RECURSIVE scan_stream(_, _, _)
\* one for-loop of execute_sqlline over the lines of a stream, starting from
\* the running total acc; only the stderr loop tests the fatal markers, and
\* it tests them before the timing patterns.
scan_stream(lines, acc, is_stderr) ==
    IF lines = <<>> THEN [end |-> "ok", perfstat |-> acc]
    ELSE LET i == Head(lines)
         IN  IF is_stderr /\ Marked[i] THEN [end |-> "fatal", perfstat |-> acc]
             ELSE IF Scanned[i].add = "ValueError"
                  THEN [end |-> "ValueError", perfstat |-> acc]
                  ELSE scan_stream(Tail(lines), acc + Scanned[i].v, is_stderr)

\* perfstat = 0; if stdout: ...; if stderr: ...
analyze(out, err) ==
    LET so == IF out # <<>> THEN scan_stream(out, 0, FALSE)
              ELSE [end |-> "ok", perfstat |-> 0]
    IN  IF so.end # "ok" THEN so
        ELSE IF err # <<>> THEN scan_stream(err, so.perfstat, TRUE) ELSE so

(***************************************************************************)
(* Python values: str + str concatenates, str + int raises TypeError       *)
(***************************************************************************)
PyStr(x) == [t |-> "str", v |-> <<x>>]

PyInt(n) == [t |-> "int", v |-> n]

TypeError == [t |-> "TypeError", v |-> <<>>]

\* a local variable that has not been assigned
Unbound == [t |-> "unbound", v |-> <<>>]

py_add(a, b) ==
    IF a.t = "str" /\ b.t = "str" THEN [t |-> "str", v |-> a.v \o b.v]
    ELSE IF a.t = "int" /\ b.t = "int" THEN [t |-> "int", v |-> a.v + b.v]
    ELSE TypeError

RECURSIVE py_concat(_)
\* parts[1] + parts[2] + ... evaluated left to right
py_concat(parts) ==
    IF Len(parts) = 1 THEN parts[1]
    ELSE py_add(py_concat(SubSeq(parts, 1, Len(parts) - 1)), parts[Len(parts)])

(***************************************************************************)
(* nagiosplugin, as used by sqlline-service-check.py                       *)
(***************************************************************************)
\* values given for --warning and for --critical
WarningArgs == {"", "10"}

CriticalArgs == {"", "20"}

\* nagiosplugin.Range(spec), bounds in hundredths; end "inf" is unbounded
Range(spec) ==
    CASE spec = ""       -> [invert |-> FALSE, start |-> 0,    end |-> "inf"]
      [] spec = "10"     -> [invert |-> FALSE, start |-> 0,    end |-> "1000"]
      [] spec = "20"     -> [invert |-> FALSE, start |-> 0,    end |-> "2000"]

RangeEnd(r) == CASE r.end = "1000" -> 1000 [] r.end = "2000" -> 2000

\* Range.match(value)
range_match(r, value) ==
    LET inside == value >= r.start /\ (r.end = "inf" \/ value <= RangeEnd(r))
    IN  IF r.invert THEN ~inside ELSE inside

\* ScalarContext.evaluate and the exit code of the resulting state
scalar_context_exit(value, w, c) ==
    IF ~range_match(Range(c), value) THEN 2
    ELSE IF ~range_match(Range(w), value) THEN 1
    ELSE 0

(***************************************************************************)
(* The run                                                                 *)
(***************************************************************************)
Scripts == {"safety", "service"}

\* --mode / --auth-mode values: the two the scripts know and one they do not
Modes == {"kerberos", "ssl", "tls"}

\* which flags were given on the command line
ArgSets == [query : BOOLEAN, filename : BOOLEAN, creds : BOOLEAN,
            username : BOOLEAN, adserver : BOOLEAN, realm : BOOLEAN,
            keytab : BOOLEAN, port : BOOLEAN, hostname : BOOLEAN,
            mode : Modes]

SeqsUpTo(n) == UNION {[1..k -> LineIds] : k \in 0..n}

\* what the child can have written: <<stdout lines, stderr lines>>
Outputs == {p \in SeqsUpTo(MaxLines) \X SeqsUpTo(MaxLines) :
              Len(p[1]) + Len(p[2]) <= MaxLines}

VARIABLES
    script,        \* which of the two scripts runs
    args,          \* the parsed command line
    pc,            \* position in main / probe / execute_sqlline
    query,         \* main's local query: "unbound", "None" or "text"
    queryfile,     \* main's local queryfile: "unbound", "None" or "path"
    username,      \* main's local username
    PASSWORD,      \* main's local PASSWORD
    port,          \* main's local port
    klist_calls,   \* statuses returned by the calls of 'klist -s' so far
    kinit_calls,   \* statuses returned by the calls of 'kinit -kt ...' so far
    execute_type,  \* argument of execute_sqlline
    jdbc,          \* the connection string
    scriptfile,    \* execute_sqlline's local queryfile
    tmpfiles,      \* contents of the files written under /tmp
    argv,          \* argument vector of the spawned SQL client
    child,         \* "none", "running", "exited" or "killed"
    stdout,        \* captured standard output, as line ids
    stderr,        \* captured standard error, as line ids
    perfstat,      \* the running total
    result,        \* how execute_sqlline ended
    warning,       \* args.warning, "unread" until the reporter reads it
    critical,      \* args.critical, likewise
    exitcode,      \* process exit status, -1 while running
    exitmsg        \* argument of sys.exit or name of the uncaught exception

vars == <<script, args, pc, query, queryfile, username, PASSWORD, port,
          klist_calls, kinit_calls, execute_type, jdbc, scriptfile,
          tmpfiles, argv, child, stdout, stderr, perfstat, result,
          warning, critical, exitcode, exitmsg>>

mainLocals == <<query, queryfile, username, PASSWORD, port>>

kerberos == <<klist_calls, kinit_calls>>

runner == <<execute_type, jdbc, scriptfile, tmpfiles, argv, child>>

parser == <<stdout, stderr, perfstat, result>>

thresholds == <<warning, critical>>

Init ==
    /\ script \in Scripts
    /\ args \in ArgSets
    /\ pc = "start"
    /\ query = "unbound"
    /\ queryfile = "unbound"
    /\ username = "unbound"
    /\ PASSWORD = "unbound"
    /\ port = "unbound"
    /\ klist_calls = <<>>
    /\ kinit_calls = <<>>
    /\ execute_type = "none"
    /\ jdbc = Unbound
    /\ scriptfile = "unbound"
    /\ tmpfiles = <<>>
    /\ argv = <<>>
    /\ child = "none"
    /\ stdout = <<>>
    /\ stderr = <<>>
    /\ perfstat = 0
    /\ result = "none"
    /\ warning = "unread"
    /\ critical = "unread"
    /\ exitcode = -1
    /\ exitmsg = ""

\* sys.exit(code), or sys.exit("message"), which prints the message and exits 1
Exit(code, msg) ==
    /\ pc' = "done"
    /\ exitcode' = code
    /\ exitmsg' = msg

\* an exception nobody catches: traceback, exit status 1
Raise(exc) == Exit(1, exc)

Goto(label) ==
    /\ pc' = label
    /\ UNCHANGED <<exitcode, exitmsg>>

\* main: the query / filename flags
main_query_source ==
    /\ pc = "start"
    /\ IF args.query /\ args.filename
       THEN /\ Exit(1, "Cannot specify both a query and a file")
            /\ UNCHANGED <<query, queryfile>>
       ELSE /\ query' = IF args.query THEN "text"
                        ELSE IF args.filename THEN "None" ELSE "unbound"
            /\ queryfile' = IF args.query THEN "None"
                            ELSE IF args.filename THEN "path" ELSE "unbound"
            /\ Goto("logging")
    /\ UNCHANGED <<script, args, username, PASSWORD, port, kerberos, runner,
                   parser, thresholds>>

\* main: log file names are built from args.hostname
main_logging ==
    /\ pc = "logging"
    /\ IF ~args.hostname THEN Raise("TypeError") ELSE Goto("credentials")
    /\ UNCHANGED <<script, args, mainLocals, kerberos, runner, parser, thresholds>>

\* main: credentials file for non-Kerberos use, --username for Kerberos
main_credentials ==
    /\ pc = "credentials"
    /\ IF args.creds /\ args.mode # "kerberos"
       THEN /\ username' = "creds[0]"
            /\ PASSWORD' = "creds[1]"
            /\ Goto("kerberos")
       ELSE IF ~args.creds /\ args.mode # "kerberos"
       THEN /\ Exit(1, "Credentials required for non-kerberos use")
            /\ UNCHANGED <<username, PASSWORD>>
       ELSE IF ~args.username
       THEN /\ Exit(1, "Username argument is requird")
            /\ UNCHANGED <<username, PASSWORD>>
       ELSE /\ username' = "args.username"
            /\ PASSWORD' = ""
            /\ Goto("kerberos")
    /\ UNCHANGED <<script, args, query, queryfile, port, kerberos, runner,
                   parser, thresholds>>

kerberos_args_missing_norealm(a) ==
    IF ~a.adserver
    THEN "--adserver is required for kerberos usage (e.g. hostname.domain.com)"
    ELSE ""

\* the message of the first failing check for required Kerberos flags, "" if none
kerberos_args_missing(a) ==
    IF ~a.adserver
    THEN "--adserver is required for kerberos usage (e.g. hostname.domain.com)"
    ELSE IF ~a.realm
    THEN "--realm is required for kerberos usage (e.g. DOMAIN.COM)"
    ELSE ""

\* main: if mode == "kerberos": required flags
main_kerberos_args ==
    /\ pc = "kerberos"
    /\ IF args.mode # "kerberos" THEN Goto("port")
       ELSE IF kerberos_args_missing(args) # ""
       THEN Exit(1, kerberos_args_missing(args))
       ELSE IF script = "safety" THEN Goto("klist") ELSE Goto("kinit")
    /\ UNCHANGED <<script, args, mainLocals, kerberos, runner, parser, thresholds>>

\* main of query-safety-check.py: subprocess.call(['klist', '-s'])
main_klist ==
    /\ pc = "klist"
    /\ \E st \in {0, 1} :
         /\ klist_calls' = <<st>>
         /\ IF st # 0
            THEN IF ~args.keytab
                 THEN Exit(1, "No kerberos ticket found and no keytab provided!")
                 ELSE Goto("kinit")
            ELSE Goto("port")
    /\ UNCHANGED <<script, args, mainLocals, kinit_calls, runner, parser, thresholds>>

kinit_failed_ignored(st) == FALSE

\* proc_status is not 0
kinit_failed(st) == st # 0

\* main: subprocess.call(['kinit', '-kt', args.keytab, ...]); a keytab of
\* None makes subprocess raise TypeError instead of running kinit
main_kinit ==
    /\ pc = "kinit"
    /\ IF ~args.keytab
       THEN /\ Raise("TypeError")
            /\ UNCHANGED kinit_calls
       ELSE \E st \in {0, 1} :
              /\ kinit_calls' = <<st>>
              /\ IF kinit_failed(st) THEN Exit(1, "Failed to kinit") ELSE Goto("port")
    /\ UNCHANGED <<script, args, mainLocals, klist_calls, runner, parser, thresholds>>

\* main: port = 10000 (an int) without --port, else the flag's text
main_port ==
    /\ pc = "port"
    /\ port' = IF ~args.port THEN PyInt(10000) ELSE PyStr("10000")
    /\ Goto("instantiate")
    /\ UNCHANGED <<script, args, query, queryfile, username, PASSWORD, kerberos,
                   runner, parser, thresholds>>

\* main: QuerySafetyCheck(...) / Load(...) reads the locals query and queryfile
main_instantiate ==
    /\ pc = "instantiate"
    /\ IF query = "unbound" THEN Raise("UnboundLocalError") ELSE Goto("probe")
    /\ UNCHANGED <<script, args, mainLocals, kerberos, runner, parser, thresholds>>

probe_always_query(qf, q) == "query"

\* if self.queryfile: execute_sqlline("file") elif self.query: ...("query")
probe_execute_type(qf, q) == IF qf = "path" THEN "file" ELSE "query"

\* probe: if self.queryfile: ... elif self.query: ...
probe ==
    /\ pc = "probe"
    /\ execute_type' = probe_execute_type(queryfile, query)
    /\ Goto("jdbc")
    /\ UNCHANGED <<script, args, mainLocals, kerberos, jdbc, scriptfile,
                   tmpfiles, argv, child, parser, thresholds>>

\* the operands of the string concatenation that builds jdbc
jdbc_parts(s, mode, p) ==
    IF mode = "kerberos"
    THEN <<PyStr("\"jdbc:hive2://"), PyStr("hostname"), PyStr(":"), p,
           PyStr("/;AuthMech=1;KrbHostFQDN="), PyStr("adserver"),
           PyStr(";KrbServiceName=hive;KrbHostFQDN="), PyStr("hostname"),
           PyStr(";KrbRealm="), PyStr("realm"),
           PyStr(IF s = "safety" THEN "\""
               ELSE ";SocketTimeout=300;UseNativeQuery=1\"")>>
    ELSE <<PyStr("\"jdbc:hive2://"), PyStr("hostname"), PyStr(":"), p,
           PyStr(IF s = "safety" THEN "/;ssl=1;AuthMech=3\""
               ELSE "/;ssl=1;AuthMech=3;SocketTimeout=300;UseNativeQuery=1\"")>>

\* execute_sqlline: the connection string
execute_sqlline_jdbc ==
    /\ pc = "jdbc"
    /\ IF args.mode \notin {"kerberos", "ssl"}
       THEN /\ Raise("UnboundLocalError")
            /\ UNCHANGED jdbc
       ELSE LET j == py_concat(jdbc_parts(script, args.mode, port))
            IN  IF j.t = "TypeError"
                THEN /\ Raise("TypeError")
                     /\ UNCHANGED jdbc
                ELSE /\ jdbc' = j
                     /\ Goto("script")
    /\ UNCHANGED <<script, args, mainLocals, kerberos, execute_type, scriptfile,
                   tmpfiles, argv, child, parser, thresholds>>

\* execute_sqlline: the script file (sqlline-service-check.py also reads it
\* back for the debug log, which changes nothing)
execute_sqlline_script ==
    /\ pc = "script"
    /\ IF execute_type = "file"
       THEN /\ scriptfile' = "args.filename"
            /\ UNCHANGED tmpfiles
       ELSE /\ scriptfile' = "/tmp/random"
            /\ tmpfiles' = Append(tmpfiles, <<<<"USE ", "database", ";\n">>,
                                              <<"query", ";\n">>>>)
    /\ Goto("popen")
    /\ UNCHANGED <<script, args, mainLocals, kerberos, execute_type, jdbc,
                   argv, child, parser, thresholds>>

\* execute_sqlline: subprocess.Popen([sqlline, -u, jdbc, -f, queryfile, -n, ...])
execute_sqlline_popen ==
    /\ pc = "popen"
    /\ argv' = <<"sqlline", "-u", jdbc, "-f", scriptfile, "-n", username,
                 "-p", PASSWORD>>
    /\ child' = "running"
    /\ Goto("communicate")
    /\ UNCHANGED <<script, args, mainLocals, kerberos, execute_type, jdbc,
                   scriptfile, tmpfiles, parser, thresholds>>

\* execute_sqlline: communicate() returns both streams of the finished child
execute_sqlline_communicate ==
    /\ pc = "communicate"
    /\ \E out \in Outputs :
         /\ stdout' = out[1]
         /\ stderr' = out[2]
    /\ child' = "exited"
    /\ Goto("analyze")
    /\ UNCHANGED <<script, args, mainLocals, kerberos, execute_type, jdbc,
                   scriptfile, tmpfiles, argv, perfstat, result, thresholds>>

\* execute_sqlline: communicate() is interrupted by an exception (a timeout
\* signal) while the child is still alive or just after it ended; the except
\* clause logs 'Process was killed by timeout.'
execute_sqlline_interrupted ==
    /\ pc = "communicate"
    /\ \E alive \in BOOLEAN : child' = IF alive THEN "running" ELSE "exited"
    /\ result' = "interrupted"
    /\ Goto("finally")
    /\ UNCHANGED <<script, args, mainLocals, kerberos, execute_type, jdbc,
                   scriptfile, tmpfiles, argv, stdout, stderr, perfstat,
                   thresholds>>

except_swallows == FALSE

\* the except clause ends in a bare raise: the exception is passed on
except_reraises == TRUE

poll_never_none(c) == FALSE

\* sqlline_cmd_stream.poll() is None
poll_is_none(c) == c = "running"

\* execute_sqlline: the finally block after an exception kills a child that is
\* still alive and drains its streams; then the exception leaves
\* execute_sqlline, probe and main
execute_sqlline_finally ==
    /\ pc = "finally"
    /\ IF poll_is_none(child)
       THEN /\ child' = "killed"
            /\ \E out \in Outputs :
                 /\ stdout' = out[1]
                 /\ stderr' = out[2]
       ELSE UNCHANGED <<child, stdout, stderr>>
    /\ IF except_reraises THEN Raise("Exception") ELSE Goto("analyze")
    /\ UNCHANGED <<script, args, mainLocals, kerberos, execute_type, jdbc,
                   scriptfile, tmpfiles, argv, perfstat, result, thresholds>>

no_data_skipped(p) == FALSE

\* if perfstat == 0: "No performance data was gathered."
no_data(p) == p = 0

\* execute_sqlline: scan stdout, then stderr, then test perfstat == 0
execute_sqlline_analyze ==
    /\ pc = "analyze"
    /\ LET a == analyze(stdout, stderr)
       IN  /\ perfstat' = a.perfstat
           /\ IF a.end = "ValueError"
              THEN /\ result' = "ValueError"
                   /\ Raise("ValueError")
              ELSE IF a.end = "fatal"
              THEN /\ result' = "fatal"
                   /\ Exit(2, "")
              ELSE IF no_data(a.perfstat)
              THEN /\ result' = "nodata"
                   /\ Exit(2, "")
              ELSE /\ result' = "returned"
                   /\ Goto("report")
    /\ UNCHANGED <<script, args, mainLocals, kerberos, runner, stdout, stderr,
                   thresholds>>

\* after execute_sqlline returned: query-safety-check.py logs the value and
\* main ends; sqlline-service-check.py hands it to nagiosplugin, whose
\* ScalarContext compares it with --warning and --critical
report ==
    /\ pc = "report"
    /\ \E w \in WarningArgs, c \in CriticalArgs :
         /\ warning' = w
         /\ critical' = c
         /\ IF script = "safety" THEN Exit(0, "")
            ELSE Exit(scalar_context_exit(perfstat, w, c), "")
    /\ UNCHANGED <<script, args, mainLocals, kerberos, runner, parser>>

Next ==
    \/ main_query_source
    \/ main_logging
    \/ main_credentials
    \/ main_kerberos_args
    \/ main_klist
    \/ main_kinit
    \/ main_port
    \/ main_instantiate
    \/ probe
    \/ execute_sqlline_jdbc
    \/ execute_sqlline_script
    \/ execute_sqlline_popen
    \/ execute_sqlline_communicate
    \/ execute_sqlline_interrupted
    \/ execute_sqlline_finally
    \/ execute_sqlline_analyze
    \/ report

Spec == Init /\ [][Next]_vars

(***************************************************************************)
(* Vocabulary of the properties.  What a line is comes from LineTable's    *)
(* kind and secs, not from the scripts' own pattern matching.              *)
(***************************************************************************)
RECURSIVE TimingSum(_)
\* the elapsed times of the timing lines among lines, added up
TimingSum(lines) ==
    IF lines = <<>> THEN 0
    ELSE (IF LineTable[Head(lines)].kind = "timing"
          THEN LineTable[Head(lines)].secs ELSE 0) + TimingSum(Tail(lines))

HasFatalLine(lines) == \E k \in 1..Len(lines) : LineTable[lines[k]].kind = "fatal"

HasTimingLine(lines) == \E k \in 1..Len(lines) : LineTable[lines[k]].kind = "timing"

\* communicate() returned the child's output and the scan of it has ended
Analyzed == result \in {"returned", "nodata", "fatal", "ValueError"}

NoExternalAction ==
    /\ klist_calls = <<>>
    /\ kinit_calls = <<>>
    /\ child = "none"
    /\ argv = <<>>
    /\ tmpfiles = <<>>

\* the invalid invocations main is written to reject
ConfigError(a) ==
    \/ a.query /\ a.filename
    \/ a.mode # "kerberos" /\ ~a.creds
    \/ a.mode = "kerberos" /\ (~a.username \/ ~a.adserver \/ ~a.realm)

RejectionMessages ==
    {"Cannot specify both a query and a file",
     "Credentials required for non-kerberos use",
     "Username argument is requird",
     "--adserver is required for kerberos usage (e.g. hostname.domain.com)",
     "--realm is required for kerberos usage (e.g. DOMAIN.COM)"}

\* everything but the port is in order
ValidButPort(a) ==
    /\ a.hostname
    /\ a.query # a.filename
    /\ a.mode \in {"kerberos", "ssl"}
    /\ a.mode # "kerberos" => a.creds
    /\ a.mode = "kerberos" => a.username /\ a.adserver /\ a.realm

AuthenticationOk ==
    args.mode = "kerberos" => (klist_calls = <<0>> \/ kinit_calls = <<0>>)

\* upper end of the range written "10" or "20", in hundredths
RangeLimit(spec) == IF spec = "10" THEN 1000 ELSE 2000

OutsideRange(m, spec) == spec # "" /\ (m < 0 \/ m > RangeLimit(spec))

(***************************************************************************)
(* Properties                                                              *)
(***************************************************************************)

\* C1: when no stderr line carries a fatal marker, the metric accumulated by
\* execute_sqlline is the sum of the elapsed times of all timing lines of
\* stdout and stderr, and it is returned when it is not zero.
C1_MetricIsSumOfTimingLines ==
    (Analyzed /\ ~HasFatalLine(stderr)) =>
        /\ perfstat = TimingSum(stdout) + TimingSum(stderr)
        /\ perfstat # 0 => result = "returned"

\* C2: a fatal marker on a stderr line ends the run with exit code 2 and no
\* metric is returned or compared with the thresholds, whatever stdout and
\* the earlier stderr lines contain.
C2_FatalMarkerIsCritical ==
    (Analyzed /\ HasFatalLine(stderr)) =>
        /\ result = "fatal"
        /\ exitcode = 2
        /\ warning = "unread" /\ critical = "unread"

\* C3: without any timing line in stdout or stderr the run ends as 'no
\* performance data' with metric zero and exit code 2, whatever the noise
\* lines are.
C3_NoTimingLineIsNoData ==
    (Analyzed /\ ~HasTimingLine(stdout) /\ ~HasTimingLine(stderr)
              /\ ~HasFatalLine(stderr)) =>
        /\ result = "nodata"
        /\ perfstat = 0
        /\ exitcode = 2

\* C4: in each script, once a non-zero metric has been gathered the exit code
\* follows the ranges: outside the critical range 2, otherwise outside the
\* warning range 1, otherwise 0.
C4_ExitCodeFollowsRanges ==
    (pc = "done" /\ result = "returned") =>
        exitcode = IF OutsideRange(perfstat, critical) THEN 2
                   ELSE IF OutsideRange(perfstat, warning) THEN 1
                   ELSE 0

\* C5: a run that main rejects as an invalid invocation exits with code 3.
C5_ConfigErrorExitsUnknown ==
    (pc = "done" /\ exitmsg \in RejectionMessages) => exitcode = 3

\* C6: a run with a configuration error that main detects never invokes
\* klist, kinit or the SQL client and never creates a temporary script file.
C6_ValidationPrecedesExternalActions ==
    ConfigError(args) =>
        /\ NoExternalAction
        /\ pc = "done" /\ exitmsg # "TypeError" => exitmsg \in RejectionMessages

\* a Kerberos run without --realm has been rejected
C6_Witness ==
    /\ pc = "done"
    /\ args.mode = "kerberos" /\ args.username /\ args.adserver /\ ~args.realm
    /\ exitmsg = "--realm is required for kerberos usage (e.g. DOMAIN.COM)"

\* C7: whenever a subprocess (klist, kinit or the SQL client) has been
\* spawned, exactly one of inline query and query file is set.
C7_ExactlyOneQuerySource ==
    (klist_calls # <<>> \/ kinit_calls # <<>> \/ child # "none") =>
        args.query # args.filename

\* C8: without a port flag, an otherwise valid and authenticated run builds
\* the connection string with port 10000 and invokes the SQL client, as it
\* does with '--port 10000'.
C8_DefaultPortReachesClient ==
    (pc = "done" /\ ~args.port /\ ValidButPort(args) /\ AuthenticationOk) =>
        /\ jdbc = py_concat(jdbc_parts(script, args.mode, PyStr("10000")))
        /\ argv # <<>>

\* C9: in each script kinit is invoked only after klist -s reported that no
\* valid ticket exists, and only with a keytab.
C9_KinitOnlyAfterFailedKlist ==
    kinit_calls # <<>> => (klist_calls = <<1>> /\ args.keytab)

\* C10: in Kerberos mode a run without a valid ticket that has no keytab or
\* whose kinit fails has terminated, and a temporary script file or the SQL
\* client exists only after klist or kinit returned status 0.
C10_AuthenticationGatesRunner ==
    args.mode = "kerberos" =>
        /\ (klist_calls = <<1>> /\ ~args.keytab) \/ kinit_calls = <<1>> => pc = "done"
        /\ (tmpfiles # <<>> \/ child # "none" \/ argv # <<>>) =>
               (klist_calls = <<0>> \/ kinit_calls = <<0>>)

\* klist found no ticket, kinit failed, and the run has ended
C10_Witness ==
    /\ pc = "done"
    /\ args.mode = "kerberos"
    /\ klist_calls = <<1>>
    /\ kinit_calls = <<1>>
    /\ exitmsg = "Failed to kinit"
    /\ tmpfiles = <<>> /\ child = "none"

\* the two ways main gives up on obtaining a Kerberos ticket
AuthenticationFailureMessages ==
    {"No kerberos ticket found and no keytab provided!", "Failed to kinit"}

\* C11: when the Kerberos ticket cannot be obtained (no ticket and no keytab,
\* or kinit fails) the process exits with code 2 or 3, never with 0 or 1.
C11_AuthenticationFailureExitCode ==
    (pc = "done" /\ exitmsg \in AuthenticationFailureMessages) =>
        exitcode \in {2, 3}

\* C12: when the wait on the SQL client is interrupted, the child is killed,
\* its output drained, and that partial output is run through the parser
\* (timing lines summed, fatal markers checked); the run fails only if the
\* partial output yields no metric.
C12_TimeoutParsesPartialOutput ==
    (pc = "done" /\ child = "killed") =>
        /\ Analyzed
        /\ ~HasFatalLine(stderr) =>
               perfstat = TimingSum(stdout) + TimingSum(stderr)

\* C12 as amended: when the wait is interrupted, a child still alive is
\* killed and its output drained, but the drained output is never parsed:
\* the exception is re-raised, no metric is accumulated or compared with the
\* thresholds, and the run always fails with exit status 1.
C12_TimeoutNeverParses ==
    (pc = "done" /\ (child = "killed" \/ result = "interrupted")) =>
        /\ result = "interrupted"
        /\ child \in {"killed", "exited"}
        /\ perfstat = 0
        /\ warning = "unread" /\ critical = "unread"
        /\ exitcode = 1
        /\ exitmsg = "Exception"

\* an interrupted run whose drained output held a timing line has failed
C12_Witness ==
    /\ pc = "done"
    /\ child = "killed"
    /\ result = "interrupted"
    /\ TimingSum(stdout) + TimingSum(stderr) > 0
    /\ ~HasFatalLine(stderr)
    /\ exitcode = 1

\* C13: a running total of exactly zero after both scans, also when timing
\* lines matched but all carried 0 seconds, ends the run with exit code 2 and
\* 'no performance data'; a metric that execute_sqlline returns is never
\* zero, and positive for non-negative timing values.
C13_ZeroIsFailure ==
    /\ result = "nodata" => (perfstat = 0 /\ pc = "done" /\ exitcode = 2)
    /\ result = "returned" => (perfstat # 0 /\ perfstat > 0)
    /\ (result \in {"returned", "nodata"}
          /\ TimingSum(stdout) + TimingSum(stderr) = 0) => result = "nodata"

\* timing lines were matched, their total was zero, and the run failed
C13_Witness ==
    /\ result = "nodata"
    /\ HasTimingLine(stdout) \/ HasTimingLine(stderr)
    /\ perfstat = 0
    /\ exitcode = 2

\* a line that holds a timing phrase without being a timing line
PhraseNoise(i) ==
    /\ LineTable[i].kind = "noise"
    /\ \/ Contains(LineTable[i].text, NoRowsAffected)
       \/ Contains(LineTable[i].text, RowsSelected)

\* such a line comes before the first fatal line of stderr in scan order
\* (all of stdout, then stderr from its first line)
PhraseNoiseBeforeMarker ==
    \/ \E k \in 1..Len(stdout) : PhraseNoise(stdout[k])
    \/ \E k \in 1..Len(stderr) :
         /\ PhraseNoise(stderr[k])
         /\ \A j \in 1..k : LineTable[stderr[j]].kind # "fatal"

\* C14: a fatal marker on either captured stream makes the run exit 2 and no
\* metric is reported or compared against thresholds.  Stated here for the
\* runs whose scan did not raise, so that a violation is the claim's own.
C14_FatalMarkerAnywhereIsCritical ==
    (Analyzed /\ result # "ValueError"
              /\ (HasFatalLine(stdout) \/ HasFatalLine(stderr))) =>
        /\ pc = "done"
        /\ exitcode = 2
        /\ result # "returned"
        /\ warning = "unread" /\ critical = "unread"

\* C14 as amended: markers are tested on standard error only.  With a marker
\* on a stderr line no metric is returned or compared against thresholds;
\* the run exits 2 at that line, unless the scan died before on a line
\* holding a timing phrase without an elapsed time (exit 1).  A marker on
\* stdout alone never gives the fatal classification.
C14_StderrMarkerIsCritical ==
    /\ (Analyzed /\ HasFatalLine(stderr)) =>
          /\ pc = "done"
          /\ result \in {"fatal", "ValueError"}
          /\ exitcode = IF result = "fatal" THEN 2 ELSE 1
          /\ warning = "unread" /\ critical = "unread"
          /\ ~PhraseNoiseBeforeMarker => result = "fatal"
    /\ result = "fatal" => HasFatalLine(stderr)

\* markers on both streams: the one on stderr ended the run with exit 2
C14_Witness ==
    /\ pc = "done"
    /\ HasFatalLine(stdout)
    /\ HasFatalLine(stderr)
    /\ result = "fatal"
    /\ exitcode = 2

\* the user name and password main hands to the check object
ExpectedUsername == IF args.mode = "kerberos" THEN "args.username" ELSE "creds[0]"

ExpectedPassword == IF args.mode = "kerberos" THEN "" ELSE "creds[1]"

\* C15: with a query file no temporary file is created and the client gets
\* that path unchanged; with inline text exactly one temporary file, holding
\* 'USE <database>;' then '<query>;', exists before the client is spawned
\* and the client gets its path; the client's arguments are, in order,
\* connection string, script path, username, password.
C15_ScriptFileHandling ==
    /\ Len(tmpfiles) <= 1
    /\ tmpfiles # <<>> =>
          /\ args.query
          /\ tmpfiles[1] = <<<<"USE ", "database", ";\n">>, <<"query", ";\n">>>>
    /\ (argv # <<>> \/ child # "none") =>
          /\ args.filename => (tmpfiles = <<>> /\ scriptfile = "args.filename")
          /\ args.query => (Len(tmpfiles) = 1 /\ scriptfile = "/tmp/random")
          /\ jdbc.t = "str"
          /\ argv = <<"sqlline", "-u", jdbc, "-f", scriptfile,
                      "-n", ExpectedUsername, "-p", ExpectedPassword>>

\* an inline query: one temporary file and a spawned client reading it
C15_Witness ==
    /\ args.query
    /\ child # "none"
    /\ Len(tmpfiles) = 1
    /\ argv[5] = "/tmp/random"

\* C16: once the SQL client has been spawned, execute_sqlline never finishes
\* (return, exit on fatal marker or no data, or exception from the wait)
\* with the child still running: an interrupted wait kills a live child
\* before the exception propagates, and parsing never starts while the child
\* runs.
C16_NoChildLeftRunning ==
    /\ pc \in {"analyze", "report"} => child = "exited"
    /\ Analyzed => child = "exited"
    /\ (pc = "done" /\ argv # <<>>) => child \in {"exited", "killed"}
    /\ child = "killed" => (result = "interrupted" /\ pc = "done")
    /\ child = "running" => pc \in {"communicate", "finally"}

\* the wait was interrupted with the child alive; it was killed before the
\* exception ended the run
C16_Witness ==
    /\ pc = "done"
    /\ argv # <<>>
    /\ child = "killed"
    /\ exitmsg = "Exception"

====
